---- MODULE Spec2Model ----
(***************************************************************************)
(* rustw configuration loader (src/src/config.rs).                         *)
(*                                                                         *)
(* The three macros of config.rs are modelled by what their expansion      *)
(* does:                                                                   *)
(*   impl_enum_decodable!        decode / from_str / get_variant_names of  *)
(*                               an enumeration given by its variant list; *)
(*   create_config!              Config, ParsedConfig, default,            *)
(*                               fill_from_parsed_config, from_toml and    *)
(*                               print_docs of a schema given by its list  *)
(*                               of option declarations.                   *)
(* A call site (a thread of the consuming application) is a "caller"; its  *)
(* locals are the caller's entries of the variables below.                 *)
(***************************************************************************)
EXTENDS Integers, Sequences, FiniteSets, TLC

VARIABLES
    schema,         \* the option declarations create_config! was invoked with
    pc,             \* pc[c]: where caller c stands in its call
    call,           \* call[c]: the operation caller c invokes, with its arguments
    parsed,         \* from_toml: local `parsed` (result of toml.parse())
    parsed_config,  \* from_toml: local `parsed_config`
    ret,            \* ret[c]: <<>> until the call returns, then <<value>>
    panicked,       \* panicked[c]: <<>> or <<panic message>>
    stdout,         \* stdout[c]: the lines caller c has written to standard output,
                    \* in order (the process's output is the interleaving of these)
    max,            \* print_docs: local `max`
    space_str,      \* print_docs: local `space_str`
    idx             \* print_docs: the macro repetition (option) reached

vars == <<schema, pc, call, parsed, parsed_config, ret, panicked, stdout,
          max, space_str, idx>>

(***************************************************************************)
(* Bounds of the model.                                                    *)
(***************************************************************************)
\* longest document text, in lines
MaxLines == 2
\* most variants of an enumeration declared through configuration_option_enum!
MaxVariants == 2
\* longest raw string handed to the enum decoders
MaxStrLen == 2
\* most option declarations of a schema other than rustw's own
MaxOptions == 3

(***************************************************************************)
(* Option<T>, Result<T, E>.                                                *)
(***************************************************************************)
None == <<>>
Some(v) == <<v>>
IsSome(o) == Len(o) = 1
Unwrap(o) == o[1]

Ok(v) == [ok |-> TRUE, v |-> v]
Err(e) == [ok |-> FALSE, e |-> e]

(***************************************************************************)
(* The schema: create_config! { ... } of rustw.  An option declaration is  *)
(* $i: $ty, $def, $( $dstring ),+                                          *)
(***************************************************************************)
Opt(i, ty, def, dstring) == [i |-> i, ty |-> ty, def |-> def, dstring |-> dstring]

RustwSchema ==
    << Opt("build_command", "String", "cargo build", <<"command to call to build">>),
       Opt("edit_command", "String", "",
           <<"command to call to edit; can use $file, $line, and $col.">>),
       Opt("port", "usize", 7878, <<"port to run rustw on">>),
       Opt("demo_mode", "bool", FALSE, <<"run in demo mode">>),
       Opt("demo_mode_root_path", "String", "", <<"path to use in URLs in demo mode">>),
       Opt("context_lines", "usize", 2,
           <<"lines of context to show before and after code snippets">>),
       Opt("build_on_load", "bool", TRUE, <<"build on page load and refresh">>),
       Opt("source_directory", "String", "src", <<"root of the source directory">>),
       Opt("save_analysis", "bool", FALSE, <<"whether to run the save_analysis pass">>) >>

\* the field names of Config / ParsedConfig: $(pub $i: $ty),+
Fields(sch) == {sch[n].i : n \in 1..Len(sch)}

(***************************************************************************)
(* ConfigType::get_variant_names for bool, usize and String.               *)
(***************************************************************************)
get_variant_names(ty) ==
    CASE ty = "bool" -> "<boolean>"
      [] ty = "usize" -> "<unsigned integer>"
      [] ty = "String" -> "<string>"

(***************************************************************************)
(* Document text.  The text handed to from_toml is a sequence of lines of  *)
(* the TOML subset rustw's configuration uses: `key = value` with a        *)
(* boolean, an integer or a quoted string, or a line whose quoted string   *)
(* is not terminated.  A value is <<kind, v>>; the kinds are those of      *)
(* toml::Value.                                                            *)
(***************************************************************************)
VString(s) == <<"String", s>>
VInteger(n) == <<"Integer", n>>
VBoolean(b) == <<"Boolean", b>>
Unterminated(s) == <<"Unterminated", s>>
Kind(v) == v[1]
Val(v) == v[2]
KeyValue(k, v) == [k |-> k, v |-> v]

\* keys a document may use: the declared options and one the schema lacks
UnknownKeys == {"theme"}
DocKeys == Fields(RustwSchema) \cup UnknownKeys
DocValues == {VString("vim"), VInteger(9000), VBoolean(TRUE), VBoolean(FALSE)}
\* edit_command = "vim
BadLine == KeyValue("edit_command", Unterminated("vim"))
DocLines == {KeyValue(k, v) : k \in DocKeys, v \in DocValues} \cup {BadLine}
Documents(n) == UNION {[1..m -> DocLines] : m \in 0..n}

\* the text of a document, as println!("{}", toml) writes it
RECURSIVE Join(_, _)
Join(strs, sep) ==
    IF Len(strs) = 0 THEN ""
    ELSE IF Len(strs) = 1 THEN strs[1]
    ELSE strs[1] \o sep \o Join(Tail(strs), sep)

ValueText(v) ==
    CASE Kind(v) = "String" -> "\"" \o Val(v) \o "\""
      [] Kind(v) = "Unterminated" -> "\"" \o Val(v)
      [] Kind(v) = "Integer" -> ToString(Val(v))
      [] Kind(v) = "Boolean" -> IF Val(v) THEN "true" ELSE "false"

Text(toml) ==
    Join([n \in 1..Len(toml) |-> toml[n].k \o " = " \o ValueText(toml[n].v)], "\n")

(***************************************************************************)
(* toml.parse(): Result<toml::Value, Vec<ParserError>>.  The parser is the *)
(* toml crate's; what from_toml relies on is that text which is not        *)
(* well-formed (an unterminated string, a key given twice) is an Err and   *)
(* any other text is the table of its keys.                                *)
(***************************************************************************)
WellFormed(toml) ==
    /\ \A n \in 1..Len(toml) : Kind(toml[n].v) # "Unterminated"
    /\ \A m, n \in 1..Len(toml) : toml[m].k = toml[n].k => m = n

\* a parser that drops the lines it cannot read instead of failing
parse_skipping(toml) ==
    LET good == SelectSeq(toml, LAMBDA l : Kind(l.v) # "Unterminated") IN
    IF \A m, n \in 1..Len(good) : good[m].k = good[n].k => m = n
    THEN Ok([k \in {good[n].k : n \in 1..Len(good)} |->
                (CHOOSE l \in {good[n] : n \in 1..Len(good)} : l.k = k).v])
    ELSE Err("ParserError")

parse(toml) ==
    IF WellFormed(toml)
    THEN Ok([k \in {toml[n].k : n \in 1..Len(toml)} |->
                (CHOOSE l \in {toml[n] : n \in 1..Len(toml)} : l.k = k).v])
    ELSE Err("ParserError")

\* {:?} of the parsed toml::Value, entries in the order of the document
DebugValue(toml) ==
    "Table({" \o Join([n \in 1..Len(toml) |->
                        "\"" \o toml[n].k \o "\": " \o Kind(toml[n].v)
                        \o "(" \o ValueText(toml[n].v) \o ")"], ", ") \o "})"

(***************************************************************************)
(* toml::decode(parsed): Option<ParsedConfig>, through the derived         *)
(* RustcDecodable of ParsedConfig { $(pub $i: Option<$ty>),+ }: a field    *)
(* whose key the table lacks is None, a field whose key is there with a    *)
(* value of the field's type is Some(value), a key there with a value of   *)
(* another type fails the whole decode (None), and keys that are no field  *)
(* of ParsedConfig are never read.                                         *)
(***************************************************************************)
Converts(v, ty) ==
    CASE ty = "String" -> Kind(v) = "String"
      [] ty = "usize" -> Kind(v) = "Integer" /\ Val(v) >= 0
      [] ty = "bool" -> Kind(v) = "Boolean"

\* a decode that takes a value of another type for an absent key
toml_decode_lenient(table) ==
    Some([f \in Fields(schema) |->
            IF /\ f \in DOMAIN table
               /\ \E n \in 1..Len(schema) :
                      schema[n].i = f /\ Converts(table[f], schema[n].ty)
            THEN Some(Val(table[f])) ELSE None])

\* a decode that fails on a key that is no field of ParsedConfig
toml_decode_strict(table) ==
    IF /\ DOMAIN table \subseteq Fields(schema)
       /\ \A n \in 1..Len(schema) :
              schema[n].i \in DOMAIN table => Converts(table[schema[n].i], schema[n].ty)
    THEN Some([f \in Fields(schema) |->
                 IF f \in DOMAIN table THEN Some(Val(table[f])) ELSE None])
    ELSE None

toml_decode(table) ==
    IF \A n \in 1..Len(schema) :
           schema[n].i \in DOMAIN table => Converts(table[schema[n].i], schema[n].ty)
    THEN Some([f \in Fields(schema) |->
                 IF f \in DOMAIN table THEN Some(Val(table[f])) ELSE None])
    ELSE None

(***************************************************************************)
(* impl Default for Config: Config { $( $i: $def, )+ }                     *)
(***************************************************************************)
default == [f \in Fields(schema) |->
              (CHOOSE o \in {schema[n] : n \in 1..Len(schema)} : o.i = f).def]

(***************************************************************************)
(* fill_from_parsed_config(mut self, parsed): the repetition               *)
(*   $( if let Some(val) = parsed.$i { self.$i = val; } )+                 *)
(* taken in declaration order from option n on, then `self`.               *)
(***************************************************************************)
\* a merge that stops at the first option the overlay leaves out
RECURSIVE fill_from_until_absent(_, _, _)
fill_from_until_absent(self, parsed_cfg, n) ==
    IF n > Len(schema) THEN self
    ELSE LET i == schema[n].i IN
         IF IsSome(parsed_cfg[i])
         THEN fill_from_until_absent([self EXCEPT ![i] = Unwrap(parsed_cfg[i])],
                                     parsed_cfg, n + 1)
         ELSE self

\* a merge that adds an integer option to the receiver's instead of replacing it
RECURSIVE fill_from_accumulating(_, _, _)
fill_from_accumulating(self, parsed_cfg, n) ==
    IF n > Len(schema) THEN self
    ELSE LET i == schema[n].i IN
         IF IsSome(parsed_cfg[i])
         THEN fill_from_accumulating(
                  [self EXCEPT ![i] = IF schema[n].ty = "usize"
                                      THEN @ + Unwrap(parsed_cfg[i])
                                      ELSE Unwrap(parsed_cfg[i])],
                  parsed_cfg, n + 1)
         ELSE fill_from_accumulating(self, parsed_cfg, n + 1)

RECURSIVE fill_from(_, _, _)
fill_from(self, parsed_cfg, n) ==
    IF n > Len(schema) THEN self
    ELSE LET i == schema[n].i IN
         IF IsSome(parsed_cfg[i])
         THEN fill_from([self EXCEPT ![i] = Unwrap(parsed_cfg[i])], parsed_cfg, n + 1)
         ELSE fill_from(self, parsed_cfg, n + 1)

\* a merge that returns the receiver as it was
fill_from_parsed_config_kept(self, parsed_cfg) == self

fill_from_parsed_config(self, parsed_cfg) == fill_from(self, parsed_cfg, 1)

(***************************************************************************)
(* from_toml(toml) as one function: what the call does, run alone.  It     *)
(* either returns a Config or panics.                                      *)
(***************************************************************************)
Returns(v) == [returns |-> TRUE, v |-> v]
Panics(msg) == [returns |-> FALSE, panic |-> msg]

from_toml(toml) ==
    LET r == parse(toml) IN
    IF ~r.ok THEN Panics("Could not parse TOML")
    ELSE LET decoded == toml_decode(r.v) IN
         IF IsSome(decoded)
         THEN Returns(fill_from_parsed_config(default, Unwrap(decoded)))
         ELSE Panics("explicit panic")

(***************************************************************************)
(* impl_enum_decodable!: an enumeration $e is the sequence of              *)
(* its variant names in declaration order; the variant $e::$x is the index *)
(* of $x in it.                                                            *)
(***************************************************************************)
AsciiUpper == "ABCDEFGHIJKLMNOPQRSTUVWXYZ"
AsciiLower == "abcdefghijklmnopqrstuvwxyz"
CharAt(s, n) == SubSeq(s, n, n)

\* u8::to_ascii_lowercase, on one character
to_ascii_lowercase(ch) ==
    IF \E n \in 1..Len(AsciiUpper) : CharAt(AsciiUpper, n) = ch
    THEN CharAt(AsciiLower, CHOOSE n \in 1..Len(AsciiUpper) : CharAt(AsciiUpper, n) = ch)
    ELSE ch

\* a comparison that does not fold case
eq_case_sensitive(a, b) == a = b

\* str::eq_ignore_ascii_case
eq_ignore_ascii_case(a, b) ==
    /\ Len(a) = Len(b)
    /\ \A n \in 1..Len(a) :
           to_ascii_lowercase(CharAt(a, n)) = to_ascii_lowercase(CharAt(b, n))

\* a chain of ifs that leaves out the last variant
RECURSIVE from_str_from_short(_, _, _)
from_str_from_short(e, s, n) ==
    IF n >= Len(e) THEN Err("Bad variant")
    ELSE IF eq_ignore_ascii_case(e[n], s) THEN Ok(n)
    ELSE from_str_from_short(e, s, n + 1)

\* FromStr::from_str: one `if stringify!($x).eq_ignore_ascii_case(s) { return Ok($e::$x); }`
\* per variant, in declaration order, then Err("Bad variant")
RECURSIVE from_str_from(_, _, _)
from_str_from(e, s, n) ==
    IF n > Len(e) THEN Err("Bad variant")
    ELSE IF eq_ignore_ascii_case(e[n], s) THEN Ok(n)
    ELSE from_str_from(e, s, n + 1)

from_str(e, s) == from_str_from(e, s, 1)

\* d.read_str() of a deserializer standing on the value d
read_str(d) == IF Kind(d) = "String" THEN Ok(Val(d)) ELSE Err("read_str")

\* Deserialize::decode: let s = try!(d.read_str()); then the same chain of ifs
RECURSIVE decode_from(_, _, _)
decode_from(e, s, n) ==
    IF n > Len(e) THEN Err("Bad variant")
    ELSE IF eq_ignore_ascii_case(e[n], s) THEN Ok(n)
    ELSE decode_from(e, s, n + 1)

decode(e, d) ==
    LET s == read_str(d) IN
    IF s.ok THEN decode_from(e, s.v, 1) ELSE s

\* ConfigType::get_variant_names of an enumeration: format!("[{}]", variants.join("|"))
enum_get_variant_names(e) == "[" \o Join(e, "|") \o "]"

(***************************************************************************)
(* print_docs: the pieces of its body.                                     *)
(***************************************************************************)
\* cmp::max
cmp_max(a, b) == IF a >= b THEN a ELSE b

\* a max that forgets the column's trailing space
RECURSIVE max_from_bare(_, _)
max_from_bare(m, n) ==
    IF n > Len(schema) THEN m
    ELSE max_from_bare(cmp_max(m, Len(schema[n].i)), n + 1)

\* let max = 0; $( let max = cmp::max(max, stringify!($i).len()+1); )+
RECURSIVE max_from(_, _)
max_from(m, n) ==
    IF n > Len(schema) THEN m
    ELSE max_from(cmp_max(m, Len(schema[n].i) + 1), n + 1)

\* for _ in lo..hi { out.push(' ') }, from the string `out`
RECURSIVE push_spaces(_, _, _)
push_spaces(out, lo, hi) ==
    IF lo >= hi THEN out ELSE push_spaces(out \o " ", lo + 1, hi)

\* {:?} of a String: quoted, with " and \ escaped
RECURSIVE escape_debug(_)
escape_debug(s) ==
    IF Len(s) = 0 THEN ""
    ELSE LET ch == CharAt(s, 1) IN
         (IF ch = "\"" THEN "\\\"" ELSE IF ch = "\\" THEN "\\\\" ELSE ch)
         \o escape_debug(SubSeq(s, 2, Len(s)))

\* {:?} of a default value $def of type $ty
fmt_debug(def, ty) ==
    CASE ty = "String" -> "\"" \o escape_debug(def) \o "\""
      [] ty = "usize" -> ToString(def)
      [] ty = "bool" -> IF def THEN "true" ELSE "false"

\* the name column of an option: lines 140-146
name_out(name_raw, m) == push_spaces("", Len(name_raw), m - 1) \o name_raw \o " "

\* the lines one repetition of print_docs writes: lines 147-154
option_lines(o, m, spaces) ==
    << name_out(o.i, m) \o get_variant_names(o.ty) \o " Default: " \o fmt_debug(o.def, o.ty) >>
    \o [n \in 1..Len(o.dstring) |-> spaces \o o.dstring[n]]
    \o << "" >>

(***************************************************************************)
(* Calls.  A caller invokes one operation; call[c] names it and holds its  *)
(* arguments, pc[c] is the statement the caller stands before.             *)
(***************************************************************************)
FromTomlCall(toml) == [op |-> "from_toml", toml |-> toml]
DefaultCall == [op |-> "default"]
PrintDocsCall == [op |-> "print_docs"]
FillCall(self, parsed_cfg) ==
    [op |-> "fill_from_parsed_config", self |-> self, parsed |-> parsed_cfg]
FromStrCall(e, s) == [op |-> "from_str", e |-> e, s |-> s]
DecodeCall(e, d) == [op |-> "decode", e |-> e, d |-> d]

Entry(op) ==
    CASE op = "from_toml" -> "parse"
      [] op = "default" -> "default"
      [] op = "print_docs" -> "docs"
      [] op = "fill_from_parsed_config" -> "merge"
      [] op = "from_str" -> "from_str"
      [] op = "decode" -> "decode_enum"

Finished(c) == pc[c] \in {"done", "panicked"}

\* the state in which the callers C stand before the calls `calls` gives them
InitCalls(sch, C, calls) ==
    /\ schema = sch
    /\ call \in [C -> calls]
    /\ pc = [c \in C |-> Entry(call[c].op)]
    /\ parsed = [c \in C |-> None]
    /\ parsed_config = [c \in C |-> None]
    /\ ret = [c \in C |-> None]
    /\ panicked = [c \in C |-> None]
    /\ stdout = [c \in C |-> <<>>]
    /\ max = [c \in C |-> 0]
    /\ space_str = [c \in C |-> ""]
    /\ idx = [c \in C |-> 0]

(***************************************************************************)
(* from_toml, line 117:                                                    *)
(*   let parsed = toml.parse().expect("Could not parse TOML");             *)
(***************************************************************************)
FromTomlParse(c) ==
    /\ pc[c] = "parse"
    /\ LET r == parse(call[c].toml) IN
       IF r.ok
       THEN /\ parsed' = [parsed EXCEPT ![c] = Some(r.v)]
            /\ pc' = [pc EXCEPT ![c] = "decode"]
            /\ UNCHANGED panicked
       ELSE /\ panicked' = [panicked EXCEPT ![c] = Some("Could not parse TOML")]
            /\ pc' = [pc EXCEPT ![c] = "panicked"]
            /\ UNCHANGED parsed
    /\ UNCHANGED <<schema, call, parsed_config, ret, stdout, max, space_str, idx>>

\* a decode step that keeps `parsed_config` in one place shared by all callers
FromTomlDecodeShared(c) ==
    /\ pc[c] = "decode"
    /\ LET decoded == toml_decode(Unwrap(parsed[c])) IN
       IF IsSome(decoded)
       THEN /\ parsed_config' = [d \in DOMAIN parsed_config |-> decoded]
            /\ pc' = [pc EXCEPT ![c] = "fill"]
            /\ UNCHANGED <<stdout, panicked>>
       ELSE /\ pc' = [pc EXCEPT ![c] = "panicked"]
            /\ UNCHANGED parsed_config
            /\ stdout' = [stdout EXCEPT ![c] =
                   @ \o << "Decoding config file failed. Config:\n"
                             \o Text(call[c].toml),
                           "\n\nParsed:\n" \o DebugValue(call[c].toml) >>]
            /\ panicked' = [panicked EXCEPT ![c] = Some("explicit panic")]
    /\ UNCHANGED <<schema, call, parsed, ret, max, space_str, idx>>

(***************************************************************************)
(* from_toml, lines 118-126: match toml::decode(parsed); on None the two   *)
(* println!, the second toml.parse().expect(..) and panic!().              *)
(***************************************************************************)
FromTomlDecode(c) ==
    /\ pc[c] = "decode"
    /\ LET decoded == toml_decode(Unwrap(parsed[c]))
           again == parse(call[c].toml)
       IN
       IF IsSome(decoded)
       THEN /\ parsed_config' = [parsed_config EXCEPT ![c] = decoded]
            /\ pc' = [pc EXCEPT ![c] = "fill"]
            /\ UNCHANGED <<stdout, panicked>>
       ELSE /\ pc' = [pc EXCEPT ![c] = "panicked"]
            /\ UNCHANGED parsed_config
            /\ IF again.ok
               THEN /\ stdout' = [stdout EXCEPT ![c] =
                          @ \o << "Decoding config file failed. Config:\n"
                                    \o Text(call[c].toml),
                                  "\n\nParsed:\n" \o DebugValue(call[c].toml) >>]
                    /\ panicked' = [panicked EXCEPT ![c] = Some("explicit panic")]
               ELSE /\ stdout' = [stdout EXCEPT ![c] =
                          @ \o << "Decoding config file failed. Config:\n"
                                    \o Text(call[c].toml) >>]
                    /\ panicked' = [panicked EXCEPT ![c] = Some("Could not parse TOML")]
    /\ UNCHANGED <<schema, call, parsed, ret, max, space_str, idx>>

(***************************************************************************)
(* from_toml, line 127:                                                    *)
(*   Config::default().fill_from_parsed_config(parsed_config)              *)
(***************************************************************************)
FromTomlFill(c) ==
    /\ pc[c] = "fill"
    /\ ret' = [ret EXCEPT ![c] =
                 Some(fill_from_parsed_config(default, Unwrap(parsed_config[c])))]
    /\ pc' = [pc EXCEPT ![c] = "done"]
    /\ UNCHANGED <<schema, call, parsed, parsed_config, panicked, stdout, max,
                   space_str, idx>>

\* Config::default()
Default(c) ==
    /\ pc[c] = "default"
    /\ ret' = [ret EXCEPT ![c] = Some(default)]
    /\ pc' = [pc EXCEPT ![c] = "done"]
    /\ UNCHANGED <<schema, call, parsed, parsed_config, panicked, stdout, max,
                   space_str, idx>>

(***************************************************************************)
(* fill_from_parsed_config called on a record and an overlay, and called   *)
(* again on what it returned with the same overlay.                        *)
(***************************************************************************)
Fill(c) ==
    /\ pc[c] = "merge"
    /\ ret' = [ret EXCEPT ![c] =
                 Some(fill_from_parsed_config(call[c].self, call[c].parsed))]
    /\ pc' = [pc EXCEPT ![c] = "merge_again"]
    /\ UNCHANGED <<schema, call, parsed, parsed_config, panicked, stdout, max,
                   space_str, idx>>

FillAgain(c) ==
    /\ pc[c] = "merge_again"
    /\ ret' = [ret EXCEPT ![c] =
                 Some(fill_from_parsed_config(Unwrap(ret[c]), call[c].parsed))]
    /\ pc' = [pc EXCEPT ![c] = "done"]
    /\ UNCHANGED <<schema, call, parsed, parsed_config, panicked, stdout, max,
                   space_str, idx>>

(***************************************************************************)
(* print_docs, lines 131-138: max, space_str and the heading.              *)
(***************************************************************************)
PrintDocsHeader(c) ==
    /\ pc[c] = "docs"
    /\ max' = [max EXCEPT ![c] = max_from(0, 1)]
    /\ space_str' = [space_str EXCEPT ![c] = push_spaces("", 0, max'[c])]
    /\ stdout' = [stdout EXCEPT ![c] = @ \o << "Configuration Options:" >>]
    /\ idx' = [idx EXCEPT ![c] = 1]
    /\ pc' = [pc EXCEPT ![c] = "option"]
    /\ UNCHANGED <<schema, call, parsed, parsed_config, ret, panicked>>

(***************************************************************************)
(* print_docs, lines 139-155: one repetition, for option idx[c]; after the *)
(* last one the function returns ().                                       *)
(***************************************************************************)
PrintDocsOption(c) ==
    /\ pc[c] = "option"
    /\ stdout' = [stdout EXCEPT ![c] =
                    @ \o option_lines(schema[idx[c]], max[c], space_str[c])]
    /\ idx' = [idx EXCEPT ![c] = @ + 1]
    /\ IF idx[c] = Len(schema)
       THEN /\ pc' = [pc EXCEPT ![c] = "done"]
            /\ ret' = [ret EXCEPT ![c] = Some("()")]
       ELSE UNCHANGED <<pc, ret>>
    /\ UNCHANGED <<schema, call, parsed, parsed_config, panicked, max, space_str>>

\* <$e as FromStr>::from_str(s)
FromStr(c) ==
    /\ pc[c] = "from_str"
    /\ ret' = [ret EXCEPT ![c] = Some(from_str(call[c].e, call[c].s))]
    /\ pc' = [pc EXCEPT ![c] = "done"]
    /\ UNCHANGED <<schema, call, parsed, parsed_config, panicked, stdout, max,
                   space_str, idx>>

\* <$e as Deserialize>::decode(d)
Decode(c) ==
    /\ pc[c] = "decode_enum"
    /\ ret' = [ret EXCEPT ![c] = Some(decode(call[c].e, call[c].d))]
    /\ pc' = [pc EXCEPT ![c] = "done"]
    /\ UNCHANGED <<schema, call, parsed, parsed_config, panicked, stdout, max,
                   space_str, idx>>

(***************************************************************************)
(* Spec: one caller loads a document (from_toml).                          *)
(***************************************************************************)
Init == InitCalls(RustwSchema, {1}, {FromTomlCall(t) : t \in Documents(MaxLines)})

Next ==
    \/ \E c \in DOMAIN pc : FromTomlParse(c)
    \/ \E c \in DOMAIN pc : FromTomlDecode(c)
    \/ \E c \in DOMAIN pc : FromTomlFill(c)

Spec == Init /\ [][Next]_vars

(***************************************************************************)
(* What the claims about from_toml speak of, stated on the document text   *)
(* itself and on the schema table of the specification.                    *)
(***************************************************************************)
DeclaredDefaults ==
    [build_command |-> "cargo build", edit_command |-> "", port |-> 7878,
     demo_mode |-> FALSE, demo_mode_root_path |-> "", context_lines |-> 2,
     build_on_load |-> TRUE, source_directory |-> "src", save_analysis |-> FALSE]

DeclaredKind ==
    [build_command |-> "String", edit_command |-> "String", port |-> "Integer",
     demo_mode |-> "Boolean", demo_mode_root_path |-> "String",
     context_lines |-> "Integer", build_on_load |-> "Boolean",
     source_directory |-> "String", save_analysis |-> "Boolean"]

Recognized(k) == k \in DOMAIN DeclaredDefaults
HasKey(toml, k) == \E n \in 1..Len(toml) : toml[n].k = k
ValueAt(toml, k) == Val(toml[CHOOSE n \in 1..Len(toml) : toml[n].k = k].v)
BrokenText(toml) == \E n \in 1..Len(toml) : Kind(toml[n].v) = "Unterminated"
RepeatsKey(toml) == \E m, n \in 1..Len(toml) : m # n /\ toml[m].k = toml[n].k
Structured(toml) == ~BrokenText(toml) /\ ~RepeatsKey(toml)
Mistyped(toml) ==
    \E n \in 1..Len(toml) :
        Recognized(toml[n].k) /\ Kind(toml[n].v) # DeclaredKind[toml[n].k]
Loads(c) == call[c].op = "from_toml" /\ Finished(c)

(***************************************************************************)
(* C1: for every structurally well-formed document whose recognized keys   *)
(* all carry values of their declared type, from_toml returns a record of  *)
(* exactly the nine declared options, each equal to the document's value   *)
(* if the key is present and to its declared default otherwise; the empty  *)
(* document loads to the defaults.                                         *)
(***************************************************************************)
C1_LoadOverlaysDefaults ==
    \A c \in DOMAIN pc :
        (Loads(c) /\ Structured(call[c].toml) /\ ~Mistyped(call[c].toml)) =>
            /\ pc[c] = "done"
            /\ IsSome(ret[c])
            /\ DOMAIN Unwrap(ret[c]) = DOMAIN DeclaredDefaults
            /\ \A f \in DOMAIN DeclaredDefaults :
                   Unwrap(ret[c])[f] = IF HasKey(call[c].toml, f)
                                       THEN ValueAt(call[c].toml, f)
                                       ELSE DeclaredDefaults[f]
            /\ (call[c].toml = <<>> => Unwrap(ret[c]) = default)

\* the scenario `port = 9000`, `demo_mode = true` has been loaded
C1_Witness ==
    \E c \in DOMAIN pc :
        /\ pc[c] = "done"
        /\ call[c] = FromTomlCall(<<KeyValue("port", VInteger(9000)),
                                    KeyValue("demo_mode", VBoolean(TRUE))>>)
        /\ Unwrap(ret[c]).port = 9000
        /\ Unwrap(ret[c]).demo_mode = TRUE
        /\ Unwrap(ret[c]).build_command = "cargo build"

(***************************************************************************)
(* C2: when the document text cannot be structurally parsed (an            *)
(* unterminated quoted string), from_toml fails with the malformed-        *)
(* document failure ("Could not parse TOML") and never yields a record: no *)
(* record at any point of the call, so no fallback to the defaults.        *)
(***************************************************************************)
C2_MalformedFails ==
    \A c \in DOMAIN pc :
        (call[c].op = "from_toml" /\ BrokenText(call[c].toml)) =>
            /\ ret[c] = None
            /\ pc[c] # "done"
            /\ Finished(c) => panicked[c] = Some("Could not parse TOML")

\* a call on a document with an unterminated string has ended
C2_Witness ==
    \E c \in DOMAIN pc :
        /\ Loads(c)
        /\ BrokenText(call[c].toml)
        /\ panicked[c] = Some("Could not parse TOML")

(***************************************************************************)
(* C3, as claimed: when a recognized key of a well-formed document has a   *)
(* value that cannot be converted to its declared type, from_toml returns  *)
(* to its caller an error value TypeMismatch and no record.                *)
(***************************************************************************)
C3_ReturnsTypeMismatch ==
    \A c \in DOMAIN pc :
        (Loads(c) /\ Structured(call[c].toml) /\ Mistyped(call[c].toml)) =>
            /\ pc[c] = "done"
            /\ ret[c] = Some(Err("TypeMismatch"))

(***************************************************************************)
(* C3, amended: in that case from_toml produces no record and returns      *)
(* nothing: it writes the diagnostic "Decoding config file failed ..." and *)
(* panics with a bare panic!(), which differs from the malformed-document  *)
(* panic ("Could not parse TOML").                                         *)
(***************************************************************************)
C3_MistypedPanics ==
    \A c \in DOMAIN pc :
        (call[c].op = "from_toml" /\ Structured(call[c].toml)
            /\ Mistyped(call[c].toml)) =>
            /\ ret[c] = None
            /\ pc[c] # "done"
            /\ Finished(c) =>
                   /\ panicked[c] = Some("explicit panic")
                   /\ panicked[c] # Some("Could not parse TOML")
                   /\ Len(stdout[c]) = 2
                   /\ stdout[c][1] = "Decoding config file failed. Config:\n"
                                       \o Text(call[c].toml)

\* a call on `demo_mode = "vim"` has ended
C3_Witness ==
    \E c \in DOMAIN pc :
        /\ Loads(c)
        /\ call[c].toml = <<KeyValue("demo_mode", VString("vim"))>>
        /\ pc[c] = "panicked"

(***************************************************************************)
(* C4: for every document D that loads and every key k the schema does not *)
(* declare, with a well-typed value, D extended with k (a key D does not   *)
(* have) loads too, to the very record D loads to.                         *)
(***************************************************************************)
Without(toml, n) == SubSeq(toml, 1, n - 1) \o SubSeq(toml, n + 1, Len(toml))

C4_UnknownKeyIgnored ==
    \A c \in DOMAIN pc :
        Loads(c) =>
            \A n \in 1..Len(call[c].toml) :
                LET k == call[c].toml[n].k
                    D == Without(call[c].toml, n)
                IN (/\ ~Recognized(k)
                    /\ Kind(call[c].toml[n].v) # "Unterminated"
                    /\ ~HasKey(D, k)
                    /\ from_toml(D).returns) =>
                        /\ pc[c] = "done"
                        /\ ret[c] = Some(from_toml(D).v)

\* `port = 9000` extended with the undeclared `theme = "vim"` has been loaded
C4_Witness ==
    \E c \in DOMAIN pc :
        /\ pc[c] = "done"
        /\ call[c].toml = <<KeyValue("port", VInteger(9000)),
                            KeyValue("theme", VString("vim"))>>
        /\ Unwrap(ret[c]).port = 9000

(***************************************************************************)
(* SpecMerge: one caller merges an overlay onto a full record, twice.      *)
(* Every option of the record holds its declared default or another value  *)
(* of its type; every option of the overlay is absent or holds one of the  *)
(* two.                                                                    *)
(***************************************************************************)
OtherValue(o) ==
    CASE o.ty = "String" -> "vim"
      [] o.ty = "usize" -> 9000
      [] o.ty = "bool" -> ~o.def

OptionNamed(sch, f) == CHOOSE o \in {sch[n] : n \in 1..Len(sch)} : o.i = f

FullRecords(sch) ==
    { [f \in Fields(sch) |-> OptionNamed(sch, f).def],
      [f \in Fields(sch) |-> OtherValue(OptionNamed(sch, f))] }

Overlays(sch) ==
    { [f \in Fields(sch) |->
         CASE sel[f] = "absent" -> None
           [] sel[f] = "default" -> Some(OptionNamed(sch, f).def)
           [] sel[f] = "other" -> Some(OtherValue(OptionNamed(sch, f)))]
      : sel \in [Fields(sch) -> {"absent", "default", "other"}] }

InitMerge ==
    InitCalls(RustwSchema, {1},
              {FillCall(D, O) : D \in FullRecords(RustwSchema), O \in Overlays(RustwSchema)})

NextMerge ==
    \/ \E c \in DOMAIN pc : Fill(c)
    \/ \E c \in DOMAIN pc : FillAgain(c)

SpecMerge == InitMerge /\ [][NextMerge]_vars

(***************************************************************************)
(* C5: fill_from_parsed_config(D, O) holds, for each declared option, O's  *)
(* value when O has the option and D's value when O lacks it; an overlay   *)
(* with no option present returns D.                                       *)
(***************************************************************************)
C5_MergeFieldwise ==
    \A c \in DOMAIN pc :
        (call[c].op = "fill_from_parsed_config" /\ pc[c] = "merge_again") =>
            LET D == call[c].self
                O == call[c].parsed
                R == Unwrap(ret[c])
            IN /\ DOMAIN R = DOMAIN DeclaredDefaults
               /\ \A f \in DOMAIN DeclaredDefaults :
                      R[f] = IF O[f] # None THEN O[f][1] ELSE D[f]
               /\ (\A f \in DOMAIN DeclaredDefaults : O[f] = None) => R = D

\* an overlay whose only option is port, unlike the record's, has been merged
C5_Witness ==
    \E c \in DOMAIN pc :
        /\ pc[c] = "merge_again"
        /\ call[c].op = "fill_from_parsed_config"
        /\ call[c].parsed.port = Some(9000)
        /\ \A f \in DOMAIN call[c].parsed : f # "port" => call[c].parsed[f] = None
        /\ call[c].self.port = 7878
        /\ Unwrap(ret[c]).port = 9000
        /\ Unwrap(ret[c]).build_command = call[c].self.build_command

(***************************************************************************)
(* C6: merging the same overlay a second time changes nothing:             *)
(* merge(merge(D, O), O) = merge(D, O).                                    *)
(***************************************************************************)
C6_MergeIdempotent ==
    [][\A c \in DOMAIN pc :
          (pc[c] = "merge_again" /\ pc'[c] = "done") => ret'[c] = ret[c]]_vars

\* an overlay that changed the record has been merged a second time
C6_Witness ==
    \E c \in DOMAIN pc :
        /\ pc[c] = "done"
        /\ call[c].op = "fill_from_parsed_config"
        /\ call[c].parsed.port = Some(9000)
        /\ call[c].self.port = 7878
        /\ Unwrap(ret[c]).port = 9000

(***************************************************************************)
(* SpecEnum: one caller decodes a raw string into an enumeration declared  *)
(* through configuration_option_enum!, by from_str or by decode.  The      *)
(* variant names are identifiers, distinct as Rust requires of an enum's   *)
(* variants; some differ in case only.                                     *)
(***************************************************************************)
VariantNames == {"A", "B", "Ab", "AB", "aB", "A_"}
RawChars == {"A", "a", "B", "b", "_"}

Enums(m) ==
    UNION { {e \in [1..k -> VariantNames] : \A i, j \in 1..k : e[i] = e[j] => i = j}
            : k \in 1..m }

RECURSIVE RawStrings(_)
RawStrings(n) ==
    IF n = 0 THEN {""}
    ELSE RawStrings(n - 1) \cup {s \o ch : s \in RawStrings(n - 1), ch \in RawChars}

InitEnum ==
    InitCalls(RustwSchema, {1},
              {FromStrCall(e, s) : e \in Enums(MaxVariants), s \in RawStrings(MaxStrLen)}
              \cup {DecodeCall(e, VString(s)) :
                        e \in Enums(MaxVariants), s \in RawStrings(MaxStrLen)}
              \cup {DecodeCall(e, VInteger(9000)) : e \in Enums(MaxVariants)})

NextEnum ==
    \/ \E c \in DOMAIN pc : FromStr(c)
    \/ \E c \in DOMAIN pc : Decode(c)

SpecEnum == InitEnum /\ [][NextEnum]_vars

(***************************************************************************)
(* Equality of two strings up to the case of the letters A-Z, a-z.         *)
(***************************************************************************)
CasePairs ==
    { <<SubSeq("ABCDEFGHIJKLMNOPQRSTUVWXYZ", n, n), SubSeq("abcdefghijklmnopqrstuvwxyz", n, n)>>
      : n \in 1..26 }
SameLetter(x, y) == x = y \/ <<x, y>> \in CasePairs \/ <<y, x>> \in CasePairs
FoldEq(a, b) ==
    /\ Len(a) = Len(b)
    /\ \A n \in 1..Len(a) : SameLetter(SubSeq(a, n, n), SubSeq(b, n, n))

\* the raw string a finished enum call was given
DecodesString(c) ==
    /\ pc[c] = "done"
    /\ \/ call[c].op = "from_str"
       \/ call[c].op = "decode" /\ Kind(call[c].d) = "String"
RawOf(c) == IF call[c].op = "from_str" THEN call[c].s ELSE Val(call[c].d)

(***************************************************************************)
(* C7, as claimed: for every declared variant name N, decoding N or any    *)
(* ASCII case variation of N returns the variant of N.                     *)
(***************************************************************************)
C7_EveryNameRoundTrips ==
    \A c \in DOMAIN pc :
        DecodesString(c) =>
            \A n \in 1..Len(call[c].e) :
                FoldEq(RawOf(c), call[c].e[n]) => ret[c] = Some(Ok(n))

(***************************************************************************)
(* C7, amended: that holds for every declared variant name N that no       *)
(* variant declared before it equals up to ASCII case.                     *)
(***************************************************************************)
C7_FirstOfItsCaseRoundTrips ==
    \A c \in DOMAIN pc :
        DecodesString(c) =>
            \A n \in 1..Len(call[c].e) :
                (/\ FoldEq(RawOf(c), call[c].e[n])
                 /\ \A m \in 1..(n - 1) : ~FoldEq(call[c].e[m], call[c].e[n]))
                    => ret[c] = Some(Ok(n))

\* "ab", the lowercase of the second variant Ab, has been decoded
C7_Witness ==
    \E c \in DOMAIN pc :
        /\ pc[c] = "done"
        /\ call[c] = FromStrCall(<<"B", "Ab">>, "ab")
        /\ ret[c] = Some(Ok(2))

(***************************************************************************)
(* C8: for every raw string s, from_str and decode both return the first   *)
(* variant in declaration order whose name equals s up to ASCII case, and  *)
(* fail with "Bad variant" exactly when no declared name does.             *)
(***************************************************************************)
FirstMatch(e, s) ==
    IF \E n \in 1..Len(e) : FoldEq(e[n], s)
    THEN Ok(CHOOSE n \in 1..Len(e) :
                FoldEq(e[n], s) /\ \A m \in 1..(n - 1) : ~FoldEq(e[m], s))
    ELSE Err("Bad variant")

C8_FirstMatchOrBadVariant ==
    \A c \in DOMAIN pc :
        DecodesString(c) =>
            /\ ret[c] = Some(FirstMatch(call[c].e, RawOf(c)))
            /\ from_str(call[c].e, RawOf(c)) = decode(call[c].e, VString(RawOf(c)))

\* decode has returned the first of two variants that both match "ab"
C8_Witness ==
    \E c \in DOMAIN pc :
        /\ pc[c] = "done"
        /\ call[c] = DecodeCall(<<"AB", "Ab">>, VString("ab"))
        /\ ret[c] = Some(Ok(1))

(***************************************************************************)
(* SpecDocs: one caller prints the documentation of a schema: rustw's, or  *)
(* one of up to MaxOptions declarations with distinct names, among them    *)
(* one with two help lines and a default that {:?} escapes.                *)
(***************************************************************************)
OptionPool ==
    { RustwSchema[3], RustwSchema[5], RustwSchema[7],
      Opt("theme", "String", "a\"b\\c", <<"colour theme", "of the pages">>),
      Opt("log", "usize", 0, <<"verbosity">>) }

Schemas(m) ==
    UNION { {sch \in [1..k -> OptionPool] : \A i, j \in 1..k : sch[i].i = sch[j].i => i = j}
            : k \in 1..m }

InitDocs ==
    /\ schema \in Schemas(MaxOptions) \cup {RustwSchema}
    /\ InitCalls(schema, {1}, {PrintDocsCall})

NextDocs ==
    \/ \E c \in DOMAIN pc : PrintDocsHeader(c)
    \/ \E c \in DOMAIN pc : PrintDocsOption(c)

SpecDocs == InitDocs /\ [][NextDocs]_vars

(***************************************************************************)
(* The documentation as the specification describes it.                    *)
(***************************************************************************)
Blank(n) == SubSeq("                                        ", 1, n)
LongestName == CHOOSE w \in {Len(schema[n].i) : n \in 1..Len(schema)} :
                   \A n \in 1..Len(schema) : Len(schema[n].i) <= w
KindText(ty) ==
    [bool |-> "<boolean>", usize |-> "<unsigned integer>", String |-> "<string>"][ty]

ExpectedBlock(o) ==
    << Blank(LongestName - Len(o.i)) \o o.i \o " " \o KindText(o.ty)
         \o " Default: " \o fmt_debug(o.def, o.ty) >>
    \o [n \in 1..Len(o.dstring) |-> Blank(LongestName + 1) \o o.dstring[n]]
    \o << "" >>

RECURSIVE ExpectedBlocks(_)
ExpectedBlocks(n) ==
    IF n > Len(schema) THEN <<>> ELSE ExpectedBlock(schema[n]) \o ExpectedBlocks(n + 1)

(***************************************************************************)
(* C10: print_docs writes, after its heading, exactly one block per        *)
(* declared option in declaration order: the name right-aligned to the     *)
(* longest option name, a space, the value kind, "Default:" and the        *)
(* default; every help line indented by that width plus one; a blank       *)
(* line.  The padding is never negative and the name column is as wide for *)
(* every option.                                                           *)
(***************************************************************************)
C10_DocsBlocks ==
    \A c \in DOMAIN pc :
        /\ (call[c].op = "print_docs" /\ pc[c] = "option") =>
               \A n \in 1..Len(schema) :
                   /\ max[c] - 1 - Len(schema[n].i) >= 0
                   /\ Len(name_out(schema[n].i, max[c])) = LongestName + 1
        /\ (call[c].op = "print_docs" /\ pc[c] = "done") =>
               /\ stdout[c] = << "Configuration Options:" >> \o ExpectedBlocks(1)
               /\ schema = RustwSchema =>
                      /\ stdout[c][2] = "      build_command <string> Default: \"cargo build\""
                      /\ stdout[c][3] = "                    command to call to build"
                      /\ stdout[c][4] = ""
                      /\ stdout[c][8] = "               port <unsigned integer> Default: 7878"
                      /\ stdout[c][14] = "demo_mode_root_path <string> Default: \"\""
                      /\ stdout[c][20] = "      build_on_load <boolean> Default: true"

\* the documentation of rustw's nine options has been printed
C10_Witness ==
    \E c \in DOMAIN pc :
        /\ call[c].op = "print_docs"
        /\ pc[c] = "done"
        /\ schema = RustwSchema
        /\ Len(stdout[c]) = 28

(***************************************************************************)
(* SpecConc: two call sites run default, from_toml and print_docs at the   *)
(* same time, their steps interleaved in any order.  Each call site is a   *)
(* thread the scheduler keeps running, hence the weak fairness of its      *)
(* steps.                                                                  *)
(***************************************************************************)
Callers == {1, 2}

ConcDocuments ==
    { <<>>,
      <<KeyValue("port", VInteger(9000)), KeyValue("demo_mode", VBoolean(TRUE))>>,
      <<BadLine>>,
      <<KeyValue("demo_mode", VString("vim"))>>,
      <<KeyValue("port", VInteger(9000)), KeyValue("theme", VString("vim"))>> }

InitConc ==
    InitCalls(RustwSchema, Callers,
              {DefaultCall, PrintDocsCall} \cup {FromTomlCall(t) : t \in ConcDocuments})

Step(c) ==
    \/ Default(c)
    \/ FromTomlParse(c)
    \/ FromTomlDecode(c)
    \/ FromTomlFill(c)
    \/ PrintDocsHeader(c)
    \/ PrintDocsOption(c)

NextConc ==
    \/ \E c \in Callers : Default(c)
    \/ \E c \in Callers : FromTomlParse(c)
    \/ \E c \in Callers : FromTomlDecode(c)
    \/ \E c \in Callers : FromTomlFill(c)
    \/ \E c \in Callers : PrintDocsHeader(c)
    \/ \E c \in Callers : PrintDocsOption(c)

SpecConc == InitConc /\ [][NextConc]_vars /\ \A c \in Callers : WF_vars(Step(c))

(***************************************************************************)
(* C9: under any interleaving of concurrent calls of default, from_toml    *)
(* and print_docs, every call completes with the result it has when run    *)
(* alone, and what a finished call returned is never altered by the steps  *)
(* of another call.                                                        *)
(***************************************************************************)
AloneResult(c) ==
    CASE call[c].op = "default" ->
             /\ pc[c] = "done"
             /\ ret[c] = Some(DeclaredDefaults)
      [] call[c].op = "from_toml" ->
             LET alone == from_toml(call[c].toml) IN
             IF alone.returns
             THEN pc[c] = "done" /\ ret[c] = Some(alone.v)
             ELSE pc[c] = "panicked" /\ ret[c] = None /\ panicked[c] = Some(alone.panic)
      [] call[c].op = "print_docs" ->
             /\ pc[c] = "done"
             /\ ret[c] = Some("()")
             /\ stdout[c] = << "Configuration Options:" >> \o ExpectedBlocks(1)

C9_ConcurrentCallsIndependent ==
    /\ [](\A c \in Callers : Finished(c) => AloneResult(c))
    /\ [][\A c \in Callers :
             Finished(c) => /\ pc'[c] = pc[c]
                            /\ ret'[c] = ret[c]
                            /\ panicked'[c] = panicked[c]
                            /\ stdout'[c] = stdout[c]]_vars
    /\ <>(\A c \in Callers : Finished(c))

\* two loads of different documents have both returned, each its own record
C9_Witness ==
    /\ pc[1] = "done"
    /\ pc[2] = "done"
    /\ call[1] = FromTomlCall(<<>>)
    /\ call[2] = FromTomlCall(<<KeyValue("port", VInteger(9000)),
                                KeyValue("demo_mode", VBoolean(TRUE))>>)
    /\ Unwrap(ret[1]).port = 7878
    /\ Unwrap(ret[2]).port = 9000

====
